---- MODULE Spec2Model ----
(***************************************************************************)
(* A model of DecisionTrees.py: the class DecisionTree (ID3 induction with *)
(* gain-threshold pruning, prediction and the evaluation loop).            *)
(*                                                                         *)
(* A DataFrame is a sequence of rows; a row is a function from the column  *)
(* names to integer cell values (bucket ids / category codes).  Gains and  *)
(* the threshold are in thousandths (0.01 is 10).                          *)
(***************************************************************************)
EXTENDS Integers, Sequences, FiniteSets, TLC

VARIABLES train_data, test_data, threshold, tree, score, prediction_data,
          pc, stack, row, calls, report, raised, call, ret

vars == <<train_data, test_data, threshold, tree, score, prediction_data,
          pc, stack, row, calls, report, raised, call, ret>>

(***************************************************************************)
(* Bounds of the model and the inputs drawn in Init.                       *)
(***************************************************************************)
MaxRows == 3        \* rows of a training dataset
MaxTestRows == 3    \* rows of a test dataset
MaxCalls == 2       \* calls of test() on one instance
MaxDepth == 3       \* frames of build_tree before the interpreter gives up
MaxExtra == 2       \* rows beyond the cap in the long datasets

\* The codes of the example's labels, in the order np.unique sorts them.
LabelCode == [no |-> 1, yes |-> 2]

\* data.keys(): the columns of every dataset, the label last.
Columns == <<"A", "B", "Y">>

FeatureValues == {0, 1}
LabelValues == {LabelCode.no, LabelCode.yes}

Row(a, b, y) == [A |-> a, B |-> b, Y |-> y]

TrainRows == {Row(a, b, y) : a \in FeatureValues, b \in FeatureValues, y \in LabelValues}

\* The 4-row example: only (A=1, B=1) is labelled yes.
Example == <<Row(1, 1, LabelCode.yes), Row(1, 0, LabelCode.no),
             Row(0, 1, LabelCode.no), Row(0, 0, LabelCode.no)>>

SeqsUpTo(S, n) == UNION {[1..k -> S] : k \in 0..n}

TrainSets == (SeqsUpTo(TrainRows, MaxRows) \ {<<>>}) \cup {Example}

\* Test rows: a seen record, and records whose B value training never saw.
TestRows == {Row(1, 1, LabelCode.yes), Row(0, 5, LabelCode.no), Row(1, 5, LabelCode.no)}

TestSets == SeqsUpTo(TestRows, MaxTestRows)

Thresholds == {0, 10, 990}

(***************************************************************************)
(* Helpers for numpy and pandas.                                           *)
(***************************************************************************)
Min(S) == CHOOSE x \in S : \A y \in S : x <= y

RECURSIVE SortedSeq(_)
SortedSeq(S) == IF S = {} THEN <<>> ELSE <<Min(S)>> \o SortedSeq(S \ {Min(S)})

\* data[column]: the column as a sequence.
Col(data, column) == [i \in DOMAIN data |-> data[i][column]]

\* np.unique: the distinct values, ascending.
unique(values) == SortedSeq({values[i] : i \in DOMAIN values})

RECURSIVE Sum(_, _)
Sum(f, S) == IF S = {} THEN 0
             ELSE LET x == CHOOSE x \in S : TRUE IN f[x] + Sum(f, S \ {x})

(***************************************************************************)
(* Preprocessing.info_gain: the reduction of the label's entropy by a      *)
(* split on key, in thousandths.  N * gain is                              *)
(*   f(N) - SUM_y f(n_y) - SUM_v f(n_v) + SUM_vy f(n_vy),  f(n) = n log2 n *)
(***************************************************************************)
NLog2N == <<
    0, 0, 2000, 4755, 8000, 11610, 15510, 19651, 24000, 28529,
    33219, 38054, 43020, 48106, 53303, 58603, 64000, 69487, 75059, 80711,
    86439, 92239, 98107, 104042, 110039, 116096, 122211, 128382, 134606, 140881,
    147207, 153580, 160000, 166465, 172974, 179525, 186117, 192750, 199421, 206131,
    212877, 219660, 226477, 233329, 240215, 247133, 254084, 261066, 268078, 275121,
    282193, 289294, 296423, 303580, 310764, 317975, 325212, 332475, 339763, 347076,
    354413, 361775, 369160, 376569, 384000, 391454, 398930, 406428, 413947, 421488,
    429050, 436632, 444235, 451857, 459500, 467161, 474842, 482543, 490261, 497999,
    505754, 513528, 521319, 529128, 536955, 544798, 552659, 560536, 568430, 576340,
    584267, 592209, 600168, 608142, 616131, 624136, 632156, 640192, 648242, 656306,
    664386, 672479, 680587, 688710, 696846, 704996, 713160, 721337, 729528, 737732,
    745950 >>

F(n) == NLog2N[n + 1]

info_gain(data, key) ==
    LET label == Columns[Len(Columns)]
        N == Len(data)
        vs == {data[i][key] : i \in DOMAIN data}
        ys == {data[i][label] : i \in DOMAIN data}
        n_v == [v \in vs |-> F(Cardinality({i \in DOMAIN data : data[i][key] = v}))]
        n_y == [y \in ys |-> F(Cardinality({i \in DOMAIN data : data[i][label] = y}))]
        n_vy == [p \in vs \X ys |->
                   F(Cardinality({i \in DOMAIN data :
                                    data[i][key] = p[1] /\ data[i][label] = p[2]}))]
    IN (F(N) - Sum(n_y, ys) - Sum(n_v, vs) + Sum(n_vy, vs \X ys)) \div N

(***************************************************************************)
(* DecisionTree.find_best_column                                           *)
(***************************************************************************)
max(values) == CHOOSE m \in {values[i] : i \in DOMAIN values} :
                   \A i \in DOMAIN values : values[i] <= m

\* A mutant of np.argmax: the last index of the maximum.
argmax_last(values) ==
    CHOOSE i \in DOMAIN values :
        values[i] = max(values) /\ \A j \in DOMAIN values : j > i => values[j] < values[i]

\* np.argmax: the first index of the maximum.
argmax(values) ==
    CHOOSE i \in DOMAIN values :
        values[i] = max(values) /\ \A j \in DOMAIN values : j < i => values[j] < values[i]

\* data.keys()[:-1]: every column but the last.
feature_keys(data) == SubSeq(Columns, 1, Len(Columns) - 1)

find_best_column(data) ==
    LET ig_values == [k \in DOMAIN feature_keys(data) |-> info_gain(data, feature_keys(data)[k])]
    IN <<feature_keys(data)[argmax(ig_values)], max(ig_values)>>

(***************************************************************************)
(* DecisionTree.get_sub_table                                              *)
(***************************************************************************)
MaxSubTable == 100

\* data[data[column] == label].reset_index(drop=True)
filter(data, column, label) == SelectSeq(data, LAMBDA r : r[column] = label)

\* A mutant of the cap: the last MaxSubTable matching rows are kept.
get_sub_table_tail(data, column, label) ==
    LET temp_table == filter(data, column, label)
    IN IF Len(temp_table) > MaxSubTable
       THEN SubSeq(temp_table, Len(temp_table) - MaxSubTable + 1, Len(temp_table))
       ELSE temp_table

get_sub_table(data, column, label) ==
    LET temp_table == filter(data, column, label)
    IN IF Len(temp_table) > MaxSubTable
       THEN SubSeq(temp_table, 1, MaxSubTable)
       ELSE temp_table

(***************************************************************************)
(* The tree: a nested dictionary {column: {value: subtree or label}}.      *)
(***************************************************************************)
None == [kind |-> "None", label |-> 0, column |-> "", children |-> <<>>]

Leaf(l) == [kind |-> "leaf", label |-> l, column |-> "", children |-> <<>>]

Dict(c, ch) == [kind |-> "dict", label |-> 0, column |-> c, children |-> ch]

(***************************************************************************)
(* DecisionTree.build_tree, one frame per call in progress.                *)
(***************************************************************************)
\* The start of a call: the best column and its values (lines 59-65).
Frame(data) ==
    LET info_gain_data == find_best_column(data)
    IN [data |-> data,
        node |-> info_gain_data[1],
        gain |-> info_gain_data[2],
        values |-> unique(Col(data, info_gain_data[1])),
        i |-> 1,
        children |-> <<>>]

Top == stack[Len(stack)]

Value == Top.values[Top.i]

SubTable == get_sub_table(Top.data, Top.node, Value)

\* np.unique(sub_table[data.columns[-1]]): the labels of the subset.
ColumnValues == unique(Col(SubTable, Columns[Len(Columns)]))

InLoop == pc = "build" /\ stack # <<>> /\ Top.i <= Len(Top.values)

SetBranch(t) ==
    stack' = [stack EXCEPT ![Len(stack)] =
                 [@ EXCEPT !.children = (Value :> t) @@ @, !.i = @ + 1]]

\* A mutant of the pruning test: the gain is recomputed on the subset.
Pruned_subset(gain, sub_table) == find_best_column(sub_table)[2] < threshold

\* info_gain_data[1] < self.threshold: the gain of the call's own dataset.
Pruned(gain, sub_table) == gain < threshold

\* A mutant of the purity test: any non-empty subset counts as pure.
Pure_any(column_values) == Len(column_values) >= 1

\* len(counts) == 1
Pure(column_values) == Len(column_values) = 1

\* train(): self.tree = self.build_tree(self.train_data)
Train ==
    /\ pc = "idle" /\ tree = None
    /\ pc' = "build"
    /\ stack' = <<Frame(train_data)>>
    /\ UNCHANGED <<train_data, test_data, threshold, tree, score, prediction_data,
                   row, calls, report, raised, call, ret>>

\* Pruning by info gain (lines 75-76).
BuildPrune ==
    /\ InLoop
    /\ Pruned(Top.gain, SubTable)
    /\ SetBranch(Leaf(ColumnValues[1]))
    /\ UNCHANGED <<train_data, test_data, threshold, tree, score, prediction_data,
                   pc, row, calls, report, raised, call, ret>>

\* The subset is pure (lines 78-79).
BuildLeaf ==
    /\ InLoop
    /\ ~Pruned(Top.gain, SubTable)
    /\ Pure(ColumnValues)
    /\ SetBranch(Leaf(ColumnValues[1]))
    /\ UNCHANGED <<train_data, test_data, threshold, tree, score, prediction_data,
                   pc, row, calls, report, raised, call, ret>>

\* The recursive call (line 81).
BuildRecurse ==
    /\ InLoop
    /\ ~Pruned(Top.gain, SubTable)
    /\ ~Pure(ColumnValues)
    /\ Len(stack) < MaxDepth
    /\ stack' = Append(stack, Frame(SubTable))
    /\ UNCHANGED <<train_data, test_data, threshold, tree, score, prediction_data,
                   pc, row, calls, report, raised, call, ret>>

\* The recursion limit of the interpreter is reached: RecursionError.
BuildOverflow ==
    /\ InLoop
    /\ ~Pruned(Top.gain, SubTable)
    /\ ~Pure(ColumnValues)
    /\ Len(stack) >= MaxDepth
    /\ pc' = "raised"
    /\ raised' = "RecursionError"
    /\ UNCHANGED <<train_data, test_data, threshold, tree, score, prediction_data,
                   stack, row, calls, report, call, ret>>

\* return tree (line 83): to the caller's branch, or to train().
BuildReturn ==
    /\ pc = "build" /\ stack # <<>> /\ Top.i > Len(Top.values)
    /\ IF Len(stack) = 1
       THEN /\ tree' = Dict(Top.node, Top.children)
            /\ stack' = <<>>
            /\ pc' = "idle"
       ELSE LET caller == stack[Len(stack) - 1]
                value == caller.values[caller.i]
            IN /\ stack' = [SubSeq(stack, 1, Len(stack) - 1) EXCEPT ![Len(stack) - 1] =
                              [@ EXCEPT !.children = (value :> Dict(Top.node, Top.children)) @@ @,
                                        !.i = @ + 1]]
               /\ UNCHANGED <<tree, pc>>
    /\ UNCHANGED <<train_data, test_data, threshold, score, prediction_data,
                   row, calls, report, raised, call, ret>>

(***************************************************************************)
(* DecisionTree.predict                                                    *)
(***************************************************************************)
DefaultPrediction == 0

Return(v) == [raised |-> "", value |-> v]

Raise(e) == [raised |-> e, value |-> 0]

\* A mutant of predict: a nested dictionary is not travelled.
predict_shallow(t, data) ==
    IF t.kind # "dict" THEN Raise("AttributeError")
    ELSE IF t.column \notin DOMAIN data THEN Return(DefaultPrediction)
    ELSE IF data[t.column] \notin DOMAIN t.children THEN Return(DefaultPrediction)
    ELSE IF t.children[data[t.column]].kind = "dict" THEN Return(DefaultPrediction)
    ELSE Return(t.children[data[t.column]].label)

RECURSIVE predict(_, _)
predict(t, data) ==
    IF t.kind # "dict"
    THEN Raise("AttributeError")                      \* tree.keys() of a non-dictionary
    ELSE LET node == t.column IN
         IF node \notin DOMAIN data
         THEN Return(DefaultPrediction)               \* KeyError on data[node]: continue
         ELSE IF data[node] \notin DOMAIN t.children
         THEN Return(DefaultPrediction)               \* KeyError on tree[node][node_value]
         ELSE LET child == t.children[data[node]] IN
              IF child.kind = "dict"
              THEN predict(child, data)               \* continue to travel in the tree
              ELSE Return(child.label)                \* the classification value

(***************************************************************************)
(* DecisionTree.test                                                       *)
(***************************************************************************)
NoReport == [printed |-> FALSE, correct |-> 0, incorrect |-> 0, rate |-> 0]

\* round(num / den * 100, ndigits=4), in ten-thousandths of a percent.
round4(num, den) == (2 * num * 1000000 + den) \div (2 * den)

\* test() is called: lines 146-148.
TestBegin ==
    /\ pc = "idle" /\ calls < MaxCalls
    /\ pc' = "test"
    /\ row' = 0
    /\ calls' = calls + 1
    /\ UNCHANGED <<train_data, test_data, threshold, tree, score, prediction_data,
                   stack, report, raised, call, ret>>

\* One iteration of the loop over the test rows: lines 150-158.
TestRow ==
    /\ pc = "test" /\ row < Len(test_data)
    /\ LET test_dict == test_data[row + 1]
           column == Columns[Len(Columns)]
           prediction == predict(tree, test_dict)
       IN IF prediction.raised # ""
          THEN /\ pc' = "raised"
               /\ raised' = prediction.raised
               /\ UNCHANGED <<prediction_data, score, row>>
          ELSE /\ prediction_data' = Append(prediction_data, prediction.value)
               /\ score' = IF test_data[row + 1][column] = prediction.value
                           THEN score + 1 ELSE score
               /\ row' = row + 1
               /\ UNCHANGED <<pc, raised>>
    /\ UNCHANGED <<train_data, test_data, threshold, tree, stack, calls, report, call, ret>>

\* The figures printed after the loop: lines 160-162.
TestReport ==
    /\ pc = "test" /\ row = Len(test_data)
    /\ IF Len(test_data) = 0
       THEN /\ pc' = "raised"
            /\ raised' = "ZeroDivisionError"
            /\ UNCHANGED report
       ELSE /\ report' = [printed |-> TRUE,
                          correct |-> score,
                          incorrect |-> Len(test_data) - score,
                          rate |-> round4(score, Len(test_data))]
            /\ pc' = "idle"
            /\ UNCHANGED raised
    /\ UNCHANGED <<train_data, test_data, threshold, tree, score, prediction_data,
                   stack, row, calls, call, ret>>

(***************************************************************************)
(* The instance after __init__.                                            *)
(***************************************************************************)
\* Datasets beyond the cap of get_sub_table: n rows with A = 1, labelled no up
\* to the cap and yes after it, then one row with A = 0 labelled yes.
CapData(n) ==
    [i \in 1..(n + 1) |->
        IF i <= n
        THEN Row(1, 0, IF i <= MaxSubTable THEN LabelCode.no ELSE LabelCode.yes)
        ELSE Row(0, 0, LabelCode.yes)]

CapSets == {CapData(n) : n \in MaxSubTable..(MaxSubTable + MaxExtra)}

Inputs == ((TrainSets \cup CapSets) \X Thresholds \X {<<>>})
          \cup ({Example} \X Thresholds \X TestSets)

NoCall == [fn |-> "", data |-> <<>>, column |-> "", label |-> 0, t |-> None]

NoRet == [done |-> FALSE, raised |-> "", value |-> 0]

Init ==
    /\ \E in \in Inputs :
          /\ train_data = in[1]
          /\ threshold = in[2]
          /\ test_data = in[3]
    /\ tree = None
    /\ score = 0
    /\ prediction_data = <<>>
    /\ pc = "idle"
    /\ stack = <<>>
    /\ row = 0
    /\ calls = 0
    /\ report = NoReport
    /\ raised = ""
    /\ call = NoCall
    /\ ret = NoRet

Next ==
    \/ Train
    \/ BuildPrune
    \/ BuildLeaf
    \/ BuildRecurse
    \/ BuildOverflow
    \/ BuildReturn
    \/ TestBegin
    \/ TestRow
    \/ TestReport

Spec == Init /\ [][Next]_vars

(***************************************************************************)
(* Calls of the public methods on their own: the arguments are drawn in    *)
(* InitCalls and one action applies the method.                            *)
(***************************************************************************)
\* Long datasets around the cap: the rows at the indices in skip have A = 0.
LongData(n, skip) ==
    [i \in 1..n |-> Row(IF i \in skip THEN 0 ELSE 1, i % 2,
                        IF i % 3 = 0 THEN LabelCode.yes ELSE LabelCode.no)]

LongSets == {LongData(n, skip) : n \in (MaxSubTable - 1)..(MaxSubTable + MaxExtra),
                                 skip \in SUBSET {2, 50}}

\* Well-formed trees: a bare Leaf, and dictionaries up to two levels deep.
Leaves == {Leaf(l) : l \in LabelValues}

ChildMaps(S) == UNION {[vs -> S] : vs \in (SUBSET FeatureValues) \ {{}}}

Dicts1 == {Dict(c, ch) : c \in {"A", "B"}, ch \in ChildMaps(Leaves)}

Dicts2 == {Dict("A", ch) : ch \in ChildMaps(Leaves \cup Dicts1)}

Trees == Leaves \cup Dicts1 \cup Dicts2

\* Records: any of the feature columns may be missing, 5 is in no child map.
Records == UNION {[cs -> {0, 1, 5}] : cs \in SUBSET {"A", "B"}}

InitCalls ==
    /\ train_data = <<>> /\ test_data = <<>> /\ threshold = 10
    /\ tree = None /\ score = 0 /\ prediction_data = <<>>
    /\ pc = "idle" /\ stack = <<>> /\ row = 0 /\ calls = 0
    /\ report = NoReport /\ raised = ""
    /\ ret = NoRet
    /\ \/ \E t \in Trees, data \in Records :
             call = [NoCall EXCEPT !.fn = "predict", !.t = t, !.data = data]
       \/ \E data \in TrainSets \cup LongSets, column \in {"A", "B"}, label \in FeatureValues :
             call = [NoCall EXCEPT !.fn = "get_sub_table", !.data = data,
                                   !.column = column, !.label = label]
       \/ \E data \in TrainSets :
             call = [NoCall EXCEPT !.fn = "find_best_column", !.data = data]

Others == <<train_data, test_data, threshold, tree, score, prediction_data,
            pc, stack, row, calls, report, raised, call>>

CallPredict ==
    /\ call.fn = "predict" /\ ~ret.done
    /\ ret' = [done |-> TRUE,
               raised |-> predict(call.t, call.data).raised,
               value |-> predict(call.t, call.data).value]
    /\ UNCHANGED Others

CallGetSubTable ==
    /\ call.fn = "get_sub_table" /\ ~ret.done
    /\ ret' = [done |-> TRUE, raised |-> "",
               value |-> get_sub_table(call.data, call.column, call.label)]
    /\ UNCHANGED Others

CallFindBestColumn ==
    /\ call.fn = "find_best_column" /\ ~ret.done
    /\ ret' = [done |-> TRUE, raised |-> "", value |-> find_best_column(call.data)]
    /\ UNCHANGED Others

NextCalls == CallPredict \/ CallGetSubTable \/ CallFindBestColumn

SpecCalls == InitCalls /\ [][NextCalls]_vars

(***************************************************************************)
(* The claims.                                                             *)
(***************************************************************************)
LabelColumn == Columns[Len(Columns)]

Labels(data) == {data[i][LabelColumn] : i \in DOMAIN data}

\* C1: after any number of calls of test(), the printed figures satisfy
\* 0 <= correct <= total, incorrect = total - correct >= 0 and the success
\* rate lies in [0, 100] (the rate is in ten-thousandths of a percent).
C1_ReportWithinBounds ==
    report.printed =>
        /\ 0 <= report.correct /\ report.correct <= Len(test_data)
        /\ report.incorrect = Len(test_data) - report.correct
        /\ report.incorrect >= 0
        /\ report.correct + report.incorrect = Len(test_data)
        /\ 0 <= report.rate /\ report.rate <= 100 * 10000

RECURSIVE LeafLabels(_)
LeafLabels(t) ==
    IF t.kind = "leaf" THEN {t.label}
    ELSE UNION {LeafLabels(t.children[w]) : w \in DOMAIN t.children}

\* C2: predict raises for no well-formed (tree, record) pair, a bare Leaf
\* included, and returns a label stored at a leaf of the tree or the default.
C2_PredictNeverRaises ==
    (call.fn = "predict" /\ ret.done) =>
        /\ ret.raised = ""
        /\ ret.value \in LeafLabels(call.t) \cup {DefaultPrediction}

\* C3: every recursive call of build_tree receives strictly fewer rows than
\* its caller had, and so build_tree terminates for every threshold.
C3_StrictSubsetTerminates ==
    /\ \A k \in DOMAIN stack : k > 1 => Len(stack[k].data) < Len(stack[k - 1].data)
    /\ raised # "RecursionError"

\* C4: on a test dataset of zero rows test() ends without dividing by zero,
\* with total = 0 and correct = 0.
C4_EmptyTestReported ==
    (Len(test_data) = 0 /\ calls > 0 /\ pc # "test") =>
        (pc = "idle" /\ raised = "" /\ score = 0)

ExampleTrained == tree # None /\ train_data = Example /\ threshold = 10

\* C5 as stated: on the example's tree (A=1, B=1) is predicted yes and
\* (A=0, B=5) the default.
C5_UnseenValueDefaults ==
    ExampleTrained =>
        /\ predict(tree, [A |-> 1, B |-> 1]) = Return(LabelCode.yes)
        /\ predict(tree, [A |-> 0, B |-> 5]) = Return(DefaultPrediction)

\* C5 as amended: on the example's tree (A=1, B=1) is predicted yes, (A=0, B=5)
\* is predicted no, the leaf of the branch A=0 (B is not looked up), and
\* (A=1, B=5), whose B value is looked up, is predicted the default.
C5_ExamplePredictions ==
    ExampleTrained =>
        /\ predict(tree, [A |-> 1, B |-> 1]) = Return(LabelCode.yes)
        /\ predict(tree, [A |-> 0, B |-> 5]) = Return(LabelCode.no)
        /\ predict(tree, [A |-> 1, B |-> 5]) = Return(DefaultPrediction)

\* test() has predicted the three records on the example's tree.
C5_Witness ==
    /\ ExampleTrained /\ report.printed /\ calls = 1
    /\ \E i, j, k \in DOMAIN test_data :
          /\ test_data[i] = Row(1, 1, LabelCode.yes) /\ prediction_data[i] = LabelCode.yes
          /\ test_data[j] = Row(0, 5, LabelCode.no) /\ prediction_data[j] = LabelCode.no
          /\ test_data[k] = Row(1, 5, LabelCode.no) /\ prediction_data[k] = DefaultPrediction

\* C6: a Leaf made in a call whose gain is >= the threshold comes from a
\* subset with exactly one distinct label, and holds that label.
C6_LeafPurity ==
    \A k \in DOMAIN stack :
        \A w \in DOMAIN stack[k].children :
            (stack[k].gain >= threshold /\ stack[k].children[w].kind = "leaf") =>
                Labels(get_sub_table(stack[k].data, stack[k].node, w))
                    = {stack[k].children[w].label}

\* An unpruned call has made a Leaf from a subset that is pure only after the
\* cap: the rows that match beyond the first 100 carry another label.
C6_Witness ==
    \E k \in DOMAIN stack :
        /\ stack[k].gain >= threshold
        /\ \E w \in DOMAIN stack[k].children :
              /\ stack[k].children[w].kind = "leaf"
              /\ Cardinality(Labels(filter(stack[k].data, stack[k].node, w))) > 1

RECURSIVE NoRevisit(_, _)
NoRevisit(t, ancestors) ==
    t.kind = "dict" =>
        /\ t.column \notin ancestors
        /\ t.column # LabelColumn
        /\ \A w \in DOMAIN t.children : NoRevisit(t.children[w], ancestors \cup {t.column})

\* C7: in a tree build_tree returned, no node splits on a column an ancestor
\* split on, and none splits on the label column.
C7_NoColumnRevisited == tree # None => NoRevisit(tree, {})

Matching(data, column, label) == {i \in DOMAIN data : data[i][column] = label}

Rank(S, i) == Cardinality({j \in S : j <= i})

Capped(n) == IF n > MaxSubTable THEN MaxSubTable ELSE n

\* C8: get_sub_table returns the rows whose column equals the value, in their
\* order, the first 100 of them when more than 100 match; when no value
\* matches more than 100 rows, the subsets over the column's values hold
\* every row exactly once.
C8_SubTable ==
    (call.fn = "get_sub_table" /\ ret.done) =>
        LET data == call.data
            M == Matching(data, call.column, call.label)
            vs == {data[i][call.column] : i \in DOMAIN data}
        IN /\ Len(ret.value) = Capped(Cardinality(M))
           /\ \A i \in M : Rank(M, i) <= MaxSubTable => ret.value[Rank(M, i)] = data[i]
           /\ (\A v \in vs : Cardinality(Matching(data, call.column, v)) <= MaxSubTable) =>
                 /\ Sum([v \in vs |-> Len(get_sub_table(data, call.column, v))], vs) = Len(data)
                 /\ \A i \in DOMAIN data :
                       LET v == data[i][call.column]
                       IN get_sub_table(data, call.column, v)
                              [Rank(Matching(data, call.column, v), i)] = data[i]

\* More than 100 rows match, a row that does not match lies among them, and
\* the call has returned.
C8_Witness ==
    /\ call.fn = "get_sub_table" /\ ret.done
    /\ LET M == Matching(call.data, call.column, call.label)
       IN /\ Cardinality(M) > MaxSubTable
          /\ \E i \in DOMAIN call.data : i \notin M /\ \E j, k \in M : j < i /\ i < k
    /\ Len(ret.value) = MaxSubTable

FeatureIndex == 1..(Len(Columns) - 1)

\* C9: find_best_column returns the leftmost of the non-label columns whose
\* gain is the maximum over them, and that gain; on the example, where A and
\* B tie, it returns A.
C9_LeftmostMaximum ==
    (call.fn = "find_best_column" /\ ret.done) =>
        /\ \E k \in FeatureIndex :
              /\ ret.value[1] = Columns[k]
              /\ ret.value[2] = info_gain(call.data, Columns[k])
              /\ \A j \in FeatureIndex : info_gain(call.data, Columns[j]) <= ret.value[2]
              /\ \A j \in FeatureIndex :
                    j < k => info_gain(call.data, Columns[j]) < ret.value[2]
        /\ call.data = Example => ret.value[1] = "A"

\* The call on the example, where the gains of A and B tie, has returned.
C9_Witness ==
    /\ call.fn = "find_best_column" /\ ret.done
    /\ call.data = Example
    /\ info_gain(Example, "A") = info_gain(Example, "B")
    /\ info_gain(Example, "A") > 0

\* C10: a call whose gain is below the threshold makes a Leaf for every
\* value of its column and no recursive call, whatever the labels of the
\* subsets, so the node it returns has depth 1; the gain tested is the one of
\* the call's own dataset.
C10_PrunedCallIsShallow ==
    /\ \A k \in DOMAIN stack :
          stack[k].gain < threshold =>
              /\ k = Len(stack)
              /\ stack[k].gain = find_best_column(stack[k].data)[2]
              /\ \A w \in DOMAIN stack[k].children : stack[k].children[w].kind = "leaf"
              /\ stack[k].i > Len(stack[k].values) =>
                    DOMAIN stack[k].children
                        = {stack[k].data[i][stack[k].node] : i \in DOMAIN stack[k].data}
    /\ (tree # None /\ find_best_column(train_data)[2] < threshold) =>
          \A w \in DOMAIN tree.children : tree.children[w].kind = "leaf"

\* A pruned call has finished its loop with a Leaf for a subset of several
\* labels, whose own best gain is not below the threshold.
C10_Witness ==
    \E k \in DOMAIN stack :
        /\ stack[k].gain < threshold
        /\ stack[k].i > Len(stack[k].values)
        /\ \E w \in DOMAIN stack[k].children :
              LET sub == get_sub_table(stack[k].data, stack[k].node, w)
              IN /\ Cardinality(Labels(sub)) > 1
                 /\ find_best_column(sub)[2] >= threshold
                 /\ stack[k].children[w].kind = "leaf"

====
